---- MODULE Spec2Model ----
(***************************************************************************)
(* Training loop of cleanrl/RAN_ddpg_continuous_action.py: DDPG with the   *)
(* momentum network m_qf1 ("M") that reshapes the critic gradient.         *)
(*                                                                         *)
(* Numbers are fixed-point: the integer One stands for 1.0, every product  *)
(* of two values is rounded back to that resolution (Mul).  The networks   *)
(* are cut down to one linear layer each (the critic keeps one 2-D tensor  *)
(* "weight" and one 1-D tensor "bias", the two shapes the loop tells       *)
(* apart), observations and actions are one-dimensional, and there is one  *)
(* environment (num_envs = 1), as in the source.                           *)
(***************************************************************************)
EXTENDS Integers, Sequences, FiniteSets, TLC

\* ------------------------------------------------------------ arithmetic

\* Resolution of the fixed-point numbers: One is 1.0.
One == 1000

\* Largest observation the environment model returns, in units of One.
MaxObs == 1

\* x / d rounded to the nearest integer (d > 0), the rounding every
\* floating-point operation of the source stands for here.
RoundDiv(x, d) == (2 * x + d) \div (2 * d)

Mul(a, b) == RoundDiv(a * b, One)

Sgn(x) == IF x > 0 THEN 1 ELSE IF x < 0 THEN -1 ELSE 0

RECURSIVE SumSeq(_)
SumSeq(s) == IF s = <<>> THEN 0 ELSE Head(s) + SumSeq(Tail(s))

\* mean over the leading (batch) dimension of a sequence of numbers
MeanSeq(s) == RoundDiv(SumSeq(s), Len(s))

\* ------------------------------------------------- configuration (args)

\* lambda_val = 0.999 and beta = 0.001, both in thousandths
lambda_val == 999
beta == 1
Milli == 1000

\* metric emission period
LogEvery == 100

\* args.gamma = 0.99
Gamma == (99 * One) \div 100

\* envs.single_action_space.low / .high of the modelled environment
action_low == -One
action_high == 2 * One

\* Actor buffers action_scale, action_bias
action_scale == (action_high - action_low) \div 2
action_bias == (action_high + action_low) \div 2

\* The runs that are modelled: command-line configurations.  tau is given
\* in thousandths (tau = 0.005 is the default), learning_rate and
\* exploration_noise in units of One.
Config(ls, pf, total, buffer) ==
    [learning_starts |-> ls, policy_frequency |-> pf, total_timesteps |-> total,
     buffer_size |-> buffer, batch_size |-> 2, tau |-> 5,
     learning_rate |-> One \div 5, exploration_noise |-> One]

\* short runs: one with a warm-up step, two with two learning steps
ShortConfigs == {Config(1, 1, 3, 2), Config(0, 1, 3, 1), Config(0, 2, 3, 1)}

\* runs that reach the first metric emission of a learning step
LongConfigs == {Config(ls, pf, 101, 1) : ls \in {98, 99}, pf \in {2, 3}}

\* ------------------------------------------------------------- networks

ParamNames == {"weight", "bias"}

\* a gradient slot that holds nothing (p.grad is None)
NoGrad == [weight |-> <<>>, bias |-> <<>>]

\* elementwise sum of two parameter sets of the same shapes (an in-place +=)
add_(p, q) == [n \in ParamNames |-> [k \in DOMAIN p[n] |-> p[n][k] + q[n][k]]]

ZeroLike(p) == [n \in ParamNames |-> [k \in DOMAIN p[n] |-> 0]]

Clip(x, lo, hi) == IF x < lo THEN lo ELSE IF x > hi THEN hi ELSE x

\* torch.tanh, piecewise linear: the identity on (-1, 1), saturated outside
tanh(x) == Clip(x, -One, One)

tanh_deriv(x) == IF -One < x /\ x < One THEN One ELSE 0

\* QNetwork.forward: one linear layer over the concatenation [x, a]
QNetwork_forward(p, x, a) == Mul(p.weight[1], x) + Mul(p.weight[2], a) + p.bias[1]

\* gradient of QNetwork.forward(x, a) with respect to the parameters
QNetwork_grad(x, a) == [weight |-> <<x, a>>, bias |-> <<One>>]

\* pre-activation of the Actor's output layer
Actor_pre(p, x) == Mul(p.weight[1], x) + p.bias[1]

\* Actor.forward
Actor_forward(p, x) == Mul(tanh(Actor_pre(p, x)), action_scale) + action_bias

\* ------------------------------------------------------- critic learning

\* lines 262-265 / 209-212: next_q_value of one transition t.  The action is
\* target_actor(next_observations), computed under no_grad; the value is
\* the network `p` on it, with p the parameters the caller passes.
next_q_value(p, ta, t) ==
    t.reward + (IF t.done THEN 0
                ELSE Mul(Gamma, QNetwork_forward(p, t.next_obs, Actor_forward(ta, t.next_obs))))

\* mutant of next_q_value_grad: the bootstrap value taken as a constant
next_q_value_grad_frozen(ta, t) ==
    [n \in ParamNames |-> [k \in DOMAIN QNetwork_grad(0, 0)[n] |-> 0]]

\* gradient of next_q_value with respect to p: the bootstrap value is
\* computed outside torch.no_grad, from p itself
next_q_value_grad(ta, t) ==
    LET gq == QNetwork_grad(t.next_obs, Actor_forward(ta, t.next_obs))
    IN  [n \in ParamNames |->
            [k \in DOMAIN gq[n] |-> IF t.done THEN 0 ELSE Mul(Gamma, gq[n][k])]]

\* compute_delta(params, ...) of one sample
compute_delta(p, ta, t) ==
    next_q_value(p, ta, t) - QNetwork_forward(p, t.obs, t.action)

\* compute_nabla_delta = grad(compute_delta): gradient with respect to params
compute_nabla_delta(ta, t) ==
    LET gn == next_q_value_grad(ta, t)
        gq == QNetwork_grad(t.obs, t.action)
    IN  [n \in ParamNames |-> [k \in DOMAIN gq[n] |-> gn[n][k] - gq[n][k]]]

\* compute_sample_nabla_delta = vmap(compute_nabla_delta): name -> [N, *shape]
compute_sample_nabla_delta(ta, batch) ==
    [n \in ParamNames |->
        [i \in DOMAIN batch |-> compute_nabla_delta(ta, batch[i])[n]]]

\* F.mse_loss(qf1_a_values, next_q_value)
mse_loss(p, ta, batch) ==
    MeanSeq([i \in DOMAIN batch |->
        LET e == QNetwork_forward(p, batch[i].obs, batch[i].action)
                 - next_q_value(p, ta, batch[i])
        IN  Mul(e, e)])

\* qf1_loss.backward(): the gradient of the mean squared error, through
\* qf1_a_values and through next_q_value
qf1_loss_backward(p, ta, batch) ==
    [n \in ParamNames |->
        [k \in DOMAIN p[n] |->
            MeanSeq([i \in DOMAIN batch |->
                LET e  == QNetwork_forward(p, batch[i].obs, batch[i].action)
                          - next_q_value(p, ta, batch[i])
                    de == QNetwork_grad(batch[i].obs, batch[i].action)[n][k]
                          - next_q_value_grad(ta, batch[i])[n][k]
                IN  Mul(2 * e, de)])]]

\* mutant of momentum_ema: the two coefficients exchanged
momentum_ema_swapped(m, g) ==
    [n \in ParamNames |->
        [k \in DOMAIN m[n] |-> RoundDiv(beta * m[n][k] + lambda_val * g[n][k], Milli)]]

\* lines 284-285: m.data = lambda_val*m.data + beta*p.grad
momentum_ema(m, g) ==
    [n \in ParamNames |->
        [k \in DOMAIN m[n] |-> RoundDiv(lambda_val * m[n][k] + beta * g[n][k], Milli)]]

\* lines 294-304: m_nabla_delta[i] = sum over names of <m, gs[name][i]>
m_nabla_delta(m, G, N) ==
    [i \in 1..N |->
        SumSeq([k \in DOMAIN m.weight |-> Mul(m.weight[k], G.weight[i][k])])
        + SumSeq([k \in DOMAIN m.bias |-> Mul(m.bias[k], G.bias[i][k])])]

\* lines 306-318: mean over the samples of (m^T nabla delta) nabla delta
m_nabla_delta_nabla_delta(m, G, N) ==
    LET c == m_nabla_delta(m, G, N)
    IN  [n \in ParamNames |->
            [k \in DOMAIN m[n] |-> MeanSeq([i \in 1..N |-> Mul(c[i], G[n][i][k])])]]

\* optimizer.step() of torch.optim (Adam for qf1 and actor, RMSprop for
\* m_qf1): both divide the gradient by its running magnitude, so a step
\* moves each weight by about lr against the sign of its gradient and
\* leaves it where the gradient is zero.
optimizer_step(p, g, lr) ==
    [n \in ParamNames |-> [k \in DOMAIN p[n] |-> p[n][k] - lr * Sgn(g[n][k])]]

\* line 183: lr = 0.5 * args.learning_rate
M_lr(a) == RoundDiv(a.learning_rate, 2)

\* mutant of p_grad_assign: the reshaped gradient handed to the critic
p_grad_assign_R(m, R) == R

\* lines 326-327: p.grad = m.data
p_grad_assign(m, R) == m

\* ------------------------------------------------- actor, target networks

\* line 337: actor_loss = -qf1(observations, actor(observations)).mean()
actor_loss_value(q, ac, batch) ==
    - MeanSeq([i \in DOMAIN batch |->
          QNetwork_forward(q, batch[i].obs, Actor_forward(ac, batch[i].obs))])

\* actor_loss.backward(): gradient with respect to the Actor's parameters
actor_loss_grad_actor(q, ac, batch) ==
    LET da(i) == Mul(q.weight[2], Mul(tanh_deriv(Actor_pre(ac, batch[i].obs)), action_scale))
    IN  [weight |-> << - MeanSeq([i \in DOMAIN batch |-> Mul(da(i), batch[i].obs)]) >>,
         bias   |-> << - MeanSeq([i \in DOMAIN batch |-> da(i)]) >>]

\* actor_loss.backward(): gradient with respect to qf1's parameters, which
\* the backward pass accumulates into qf1's gradient slots
actor_loss_grad_qf1(ac, batch) ==
    [weight |-> << - MeanSeq([i \in DOMAIN batch |-> batch[i].obs]),
                   - MeanSeq([i \in DOMAIN batch |-> Actor_forward(ac, batch[i].obs)]) >>,
     bias   |-> << - One >>]

\* mutant of soft_update: tau weighs the old target
soft_update_swapped(live, target, tau) ==
    [n \in ParamNames |->
        [k \in DOMAIN target[n] |->
            RoundDiv((Milli - tau) * live[n][k] + tau * target[n][k], Milli)]]

\* lines 343-346: target_param = tau * param + (1 - tau) * target_param
soft_update(live, target, tau) ==
    [n \in ParamNames |->
        [k \in DOMAIN target[n] |->
            RoundDiv(tau * live[n][k] + (Milli - tau) * target[n][k], Milli)]]

\* ------------------------------------------------ environment and replay

ObsValues == {k * One : k \in 0..MaxObs}

\* envs.reset(): the start observation, also what an auto-reset returns
ResetObs == 0

RewardValues == {One}

\* envs.single_action_space.sample()
ActionSamples == {action_low, action_high}

\* torch.normal(0, actor.action_scale * args.exploration_noise): a draw at
\* the mean or two standard deviations away from it
NoiseValues(a) ==
    {k * 2 * Mul(action_scale, a.exploration_noise) : k \in {-1, 0, 1}}

\* envs.step(actions) of the vector environment: either the episode goes
\* on, or it ends, and then the returned observation is the auto-reset one
\* and infos carries the terminal observation.  The environment pays the
\* same reward every step and never truncates an episode (infos carries no
\* TimeLimit.truncated), so the buffer returns dones as they were stored.
EnvOutcomes ==
    {[next_obs |-> o, reward |-> r, done |-> FALSE, terminal_observation |-> <<>>]
        : o \in ObsValues, r \in RewardValues}
    \cup
    {[next_obs |-> ResetObs, reward |-> r, done |-> TRUE, terminal_observation |-> <<o>>]
        : o \in ObsValues, r \in RewardValues}

NoTransition == [obs |-> 0, next_obs |-> 0, action |-> 0, reward |-> 0, done |-> FALSE]

\* ReplayBuffer(args.buffer_size, ...)
ReplayBuffer(size) ==
    [store |-> [j \in 0..(size - 1) |-> NoTransition], pos |-> 0, full |-> FALSE]

\* rb.add: write at pos, advance, wrap around when the buffer is full
rb_add(b, size, t) ==
    [store |-> [b.store EXCEPT ![b.pos] = t],
     pos   |-> (b.pos + 1) % size,
     full  |-> b.full \/ (b.pos + 1 = size)]

\* rb.sample: batch_size independent draws among the stored transitions
rb_sample_indices(b, size, n) ==
    [1..n -> 0..((IF b.full THEN size ELSE b.pos) - 1)]

\* ------------------------------------------------------------- the state

VARIABLES
    args,           \* the parsed command line
    global_step,    \* loop counter of the training loop
    pc,             \* position in the loop body
    obs,            \* observation the next action is chosen from
    actions,        \* actions of the current step (<<>> before the first)
    env_out,        \* what envs.step returned: next_obs, rewards, dones, infos
    rb,             \* replay buffer
    rb_adds,        \* number of rb.add calls so far
    actor, qf1, target_actor, qf1_target,
    m_qf1,          \* momentum network M
    qf1_grad,       \* p.grad of qf1's parameters (NoGrad: None)
    grad_is_m,      \* qf1's p.grad tensors are m_qf1's data tensors
    m_grad,         \* m.grad of m_qf1's parameters (NoGrad: None)
    data,           \* the sampled batch
    gs,             \* per-sample gradients
    qf1_loss,       \* <<value>>, or <<>> while the name is unbound
    actor_loss,     \* <<value>>, or <<>> while the name is unbound
    writer,         \* global_step values of the metric emissions
    hist            \* history: M and g as they were after qf1_loss.backward()

vars == <<args, global_step, pc, obs, actions, env_out, rb, rb_adds, actor, qf1,
          target_actor, qf1_target, m_qf1, qf1_grad, grad_is_m, m_grad, data, gs,
          qf1_loss, actor_loss, writer, hist>>

nets == <<actor, qf1, target_actor, qf1_target, m_qf1>>

\* Actor(envs), QNetwork(envs): some initial weights
InitActor == [weight |-> << One \div 2 >>, bias |-> << 0 >>]
InitQf1 == [weight |-> << One \div 2, One \div 4 >>, bias |-> << One \div 10 >>]

InitWith(configs) ==
    /\ args \in configs
    /\ global_step = 0
    /\ pc = "act"
    /\ obs = ResetObs
    /\ actions = <<>>
    /\ env_out = [next_obs |-> ResetObs, reward |-> 0, done |-> FALSE,
                  terminal_observation |-> <<>>]
    /\ rb = ReplayBuffer(args.buffer_size)
    /\ rb_adds = 0
    /\ actor = InitActor
    /\ qf1 = InitQf1
    /\ target_actor = actor
    /\ qf1_target = qf1
    /\ m_qf1 = ZeroLike(qf1)
    /\ qf1_grad = NoGrad
    /\ grad_is_m = FALSE
    /\ m_grad = NoGrad
    /\ data = <<>>
    /\ gs = NoGrad
    /\ qf1_loss = <<>>
    /\ actor_loss = <<>>
    /\ writer = {}
    /\ hist = [m |-> ZeroLike(qf1), g |-> NoGrad]

Init == InitWith(ShortConfigs)

InitLong == InitWith(LongConfigs)

\* ------------------------------------------------------------ the loop

\* line 229: the action-selection mode
random_actions(step, a) == step < a.learning_starts

\* mutant of learning_guard: learning in every step
learning_guard_always(step, a) == step >= 0

\* line 260: the learning guard
learning_guard(step, a) == step > a.learning_starts

\* mutant of clip_action: no clipping
clip_action_none(x) == x

\* line 235: clip to the action-space bounds
clip_action(x) == Clip(x, action_low, action_high)

\* lines 229-235
select_action(step, a, ac, o, sample, noise) ==
    IF random_actions(step, a)
    THEN sample
    ELSE clip_action(Actor_forward(ac, o) + noise)

\* mutant of real_next_obs: the returned (auto-reset) observation is stored
real_next_obs_returned(out) == out.next_obs

\* lines 249-252
real_next_obs(out) ==
    IF out.done THEN out.terminal_observation[1] ELSE out.next_obs

\* the for statement: next value of global_step, or the loop is over
NextIteration ==
    /\ global_step' = global_step + 1
    /\ pc' = IF global_step + 1 < args.total_timesteps THEN "act" ELSE "done"

\* lines 229-260: choose the action, step the environment, store the
\* transition, carry the observation over, test the learning guard
Act ==
    /\ pc = "act"
    /\ \E sample \in (IF random_actions(global_step, args) THEN ActionSamples ELSE {0}),
          noise \in (IF random_actions(global_step, args) THEN {0} ELSE NoiseValues(args)),
          out \in EnvOutcomes :
            LET a == select_action(global_step, args, actor, obs, sample, noise)
            IN  /\ actions' = <<a>>
                /\ env_out' = out
                /\ rb' = rb_add(rb, args.buffer_size,
                                [obs |-> obs, next_obs |-> real_next_obs(out),
                                 action |-> a, reward |-> out.reward, done |-> out.done])
                /\ rb_adds' = rb_adds + 1
                /\ obs' = out.next_obs
    /\ IF learning_guard(global_step, args)
       THEN pc' = "sample" /\ global_step' = global_step
       ELSE NextIteration
    /\ UNCHANGED <<args, nets, qf1_grad, grad_is_m, m_grad, data, gs, qf1_loss,
                   actor_loss, writer, hist>>

\* lines 261-272: sample the batch, q_optimizer.zero_grad(), then
\* qf1_loss.backward().  zero_grad() sets the slots to None (the default of
\* the torch versions that have torch.func), so it writes to no tensor, and
\* backward() fills the slots with fresh tensors.
SampleBackward ==
    /\ pc = "sample"
    /\ \E idx \in rb_sample_indices(rb, args.buffer_size, args.batch_size) :
            LET batch == [i \in 1..args.batch_size |-> rb.store[idx[i]]]
                g == qf1_loss_backward(qf1, target_actor, batch)
            IN  /\ data' = batch
                /\ qf1_loss' = << mse_loss(qf1, target_actor, batch) >>
                /\ qf1_grad' = g
                /\ hist' = [m |-> m_qf1, g |-> g]
    /\ grad_is_m' = FALSE
    /\ pc' = "ema"
    /\ UNCHANGED <<args, global_step, obs, actions, env_out, rb, rb_adds, nets,
                   m_grad, gs, actor_loss, writer>>

\* lines 278-289: the moving average, then both gradient sets are cleared
MomentumEMA ==
    /\ pc = "ema"
    /\ m_qf1' = momentum_ema(m_qf1, qf1_grad)
    /\ qf1_grad' = NoGrad
    /\ m_grad' = NoGrad
    /\ pc' = "reshape"
    /\ UNCHANGED <<args, global_step, obs, actions, env_out, rb, rb_adds, actor, qf1,
                   target_actor, qf1_target, grad_is_m, data, gs, qf1_loss,
                   actor_loss, writer, hist>>

\* lines 291-321: per-sample gradients, projection on M, m.grad = R
Reshape ==
    /\ pc = "reshape"
    /\ gs' = compute_sample_nabla_delta(target_actor, data)
    /\ m_grad' = m_nabla_delta_nabla_delta(m_qf1, gs', args.batch_size)
    /\ pc' = "mstep"
    /\ UNCHANGED <<args, global_step, obs, actions, env_out, rb, rb_adds, nets,
                   qf1_grad, grad_is_m, data, qf1_loss, actor_loss, writer, hist>>

\* line 324: M_optimizer.step()
MStep ==
    /\ pc = "mstep"
    /\ m_qf1' = optimizer_step(m_qf1, m_grad, M_lr(args))
    /\ pc' = "qstep"
    /\ UNCHANGED <<args, global_step, obs, actions, env_out, rb, rb_adds, actor, qf1,
                   target_actor, qf1_target, qf1_grad, grad_is_m, m_grad, data, gs,
                   qf1_loss, actor_loss, writer, hist>>

\* lines 326-334: p.grad = m.data, q_optimizer.step()
CriticStep ==
    /\ pc = "qstep"
    /\ qf1_grad' = p_grad_assign(m_qf1, m_grad)
    /\ grad_is_m' = (qf1_grad' = m_qf1)
    /\ qf1' = optimizer_step(qf1, qf1_grad', args.learning_rate)
    /\ pc' = "policy"
    /\ UNCHANGED <<args, global_step, obs, actions, env_out, rb, rb_adds, actor,
                   target_actor, qf1_target, m_qf1, m_grad, data, gs, qf1_loss,
                   actor_loss, writer, hist>>

\* line 336: the delayed-update guard
policy_guard(step, a) == step % a.policy_frequency = 0

\* lines 336-346: actor update and target smoothing, every policy_frequency
\* steps.  actor_loss.backward() adds the loss's gradient with respect to
\* qf1's parameters in place to qf1's gradient tensors, and those are
\* m_qf1's data tensors since line 327.
PolicyUpdate ==
    /\ pc = "policy"
    /\ IF policy_guard(global_step, args)
       THEN LET cg == actor_loss_grad_qf1(actor, data)
                acc == add_(qf1_grad, cg)
            IN  /\ actor_loss' = << actor_loss_value(qf1, actor, data) >>
                /\ qf1_grad' = acc
                /\ m_qf1' = IF grad_is_m THEN acc ELSE m_qf1
                /\ actor' = optimizer_step(actor, actor_loss_grad_actor(qf1, actor, data),
                                           args.learning_rate)
                /\ target_actor' = soft_update(actor', target_actor, args.tau)
                /\ qf1_target' = soft_update(qf1, qf1_target, args.tau)
       ELSE UNCHANGED <<actor_loss, qf1_grad, m_qf1, actor, target_actor, qf1_target>>
    /\ pc' = "log"
    /\ UNCHANGED <<args, global_step, obs, actions, env_out, rb, rb_adds, qf1,
                   grad_is_m, m_grad, data, gs, qf1_loss, writer, hist>>

\* lines 348-355: metric emission; reading the unbound name actor_loss
\* raises NameError and ends the run
Log ==
    /\ pc = "log"
    /\ IF global_step % LogEvery = 0
       THEN IF actor_loss = <<>>
            THEN pc' = "crashed" /\ UNCHANGED <<global_step, writer>>
            ELSE writer' = writer \cup {global_step} /\ NextIteration
       ELSE UNCHANGED writer /\ NextIteration
    /\ UNCHANGED <<args, obs, actions, env_out, rb, rb_adds, nets, qf1_grad,
                   grad_is_m, m_grad, data, gs, qf1_loss, actor_loss, hist>>

Next ==
    \/ Act
    \/ SampleBackward
    \/ MomentumEMA
    \/ Reshape
    \/ MStep
    \/ CriticStep
    \/ PolicyUpdate
    \/ Log

Spec == Init /\ [][Next]_vars

SpecLong == InitLong /\ [][Next]_vars

\* =============================================================== claims

\* the transition of the most recent rb.add
LastAdded == rb.store[(rb.pos - 1) % args.buffer_size]

\* 0.999 * m + 0.001 * g, written out
LeakyIntegrator(m, g) == RoundDiv(999 * m + g, 1000)

\* C1 (as stated): after q_optimizer.step() of a critic-learning step the
\* gradient slots of qf1 hold the reshaped gradient R (m.grad) of that step,
\* and neither the batch gradient g nor the momentum tensors M.
C1_GradientIsR ==
    pc = "policy" => (qf1_grad = m_grad /\ qf1_grad # m_qf1 /\ qf1_grad # hist.g)

\* C1 (amended): the gradient handed to q_optimizer is the momentum tensor
\* M itself, as it stands after M_optimizer.step(); the critic's weights
\* move against the sign of M, and R stays in m.grad.
C1_GradientIsM ==
    [][pc = "qstep" =>
         /\ qf1_grad' = m_qf1
         /\ grad_is_m'
         /\ m_grad' = m_grad
         /\ \A n \in ParamNames : \A k \in DOMAIN qf1[n] :
                qf1'[n][k] = qf1[n][k] - args.learning_rate * Sgn(m_qf1[n][k])]_vars

C1_Witness ==
    /\ pc = "policy"
    /\ qf1_grad = m_qf1
    /\ m_grad # m_qf1
    /\ m_grad # ZeroLike(m_qf1)
    /\ \E n \in ParamNames : \E k \in DOMAIN m_qf1[n] : Sgn(m_grad[n][k]) # Sgn(m_qf1[n][k])

\* C2 (as stated): at the end of a critic-learning step M is
\* 0.999 * M(start of the step) + 0.001 * g, whatever the per-sample
\* gradients were.
C2_EndOfStepIsEMA ==
    pc = "policy" =>
        \A n \in ParamNames : \A k \in DOMAIN m_qf1[n] :
            m_qf1[n][k] = LeakyIntegrator(hist.m[n][k], hist.g[n][k])

\* C2 (amended): M is 0.999 * M(start) + 0.001 * g right after the
\* decay-and-accumulate loop; M_optimizer.step() then moves every entry
\* against the sign of R, which is computed from the per-sample gradients,
\* and that is the value M has at the end of the critic-learning step.
C2_EMAThenMStep ==
    \A n \in ParamNames : \A k \in DOMAIN m_qf1[n] :
        /\ pc \in {"reshape", "mstep"} =>
              m_qf1[n][k] = LeakyIntegrator(hist.m[n][k], hist.g[n][k])
        /\ pc \in {"qstep", "policy"} =>
              m_qf1[n][k] = LeakyIntegrator(hist.m[n][k], hist.g[n][k])
                            - RoundDiv(args.learning_rate, 2) * Sgn(m_grad[n][k])

C2_Witness ==
    /\ pc = "policy"
    /\ hist.m # ZeroLike(m_qf1)
    /\ \E n \in ParamNames : \E k \in DOMAIN m_qf1[n] :
          /\ m_grad[n][k] # 0
          /\ LeakyIntegrator(hist.m[n][k], hist.g[n][k]) # hist.m[n][k]
          /\ m_qf1[n][k] # LeakyIntegrator(hist.m[n][k], hist.g[n][k])

\* C3 (as stated): a learning update follows the environment step exactly
\* in the steps with global_step >= learning_starts, the step
\* global_step = learning_starts included.
C3_LearningFromLearningStarts ==
    [][pc = "act" =>
         ((pc' = "sample") <=> (global_step >= args.learning_starts))]_vars

\* C4: while global_step < learning_starts a step changes no parameter of
\* Actor, Critic, the targets or M, M is all zero and the targets equal
\* their live networks; every environment step, in WARMUP and in LEARNING,
\* adds exactly one transition to the replay buffer.
C4_WarmupFrozen ==
    [][/\ global_step < args.learning_starts =>
             /\ nets' = nets
             /\ m_qf1 = ZeroLike(qf1)
             /\ target_actor = actor
             /\ qf1_target = qf1
       /\ pc = "act" => (rb_adds' = rb_adds + 1 /\ rb'.store[rb.pos].obs = obs)
       /\ pc # "act" => (rb_adds' = rb_adds /\ rb' = rb)
       /\ global_step' # global_step => rb_adds' = global_step']_vars

C4_Witness ==
    /\ args.learning_starts = 1
    /\ global_step = 1
    /\ pc = "act"
    /\ rb_adds = 1
    /\ rb.pos = 1
    /\ actions \in {<<x>> : x \in ActionSamples}
    /\ m_qf1 = ZeroLike(qf1)

\* (1 - done) * gamma * x for the transition t
Discounted(t, x) == IF t.done THEN 0 ELSE Mul(Gamma, x)

\* the Bellman error of transition t, its bootstrap value taken from the
\* critic parameters p on the TargetActor's action
BellmanError(p, t) ==
    QNetwork_forward(qf1, t.obs, t.action)
    - (t.reward + Discounted(t, QNetwork_forward(p, t.next_obs,
                                    Actor_forward(target_actor, t.next_obs))))

\* C5 (as stated): the bootstrap term is TargetCritic on TargetActor's
\* action and a constant: the per-sample gradient of the residual is
\* -grad Critic(s_i, a_i), and the batch gradient g is the mean of
\* 2 * error_i * grad Critic(s_i, a_i) with the error's bootstrap value
\* taken from TargetCritic.
C5_BootstrapFrozen ==
    /\ pc = "mstep" =>
          \A i \in DOMAIN data :
              /\ gs.weight[i] = << - data[i].obs, - data[i].action >>
              /\ gs.bias[i] = << - One >>
    /\ pc = "ema" =>
          \A n \in ParamNames : \A k \in DOMAIN qf1[n] :
              qf1_grad[n][k] =
                  MeanSeq([i \in DOMAIN data |->
                      Mul(2 * BellmanError(qf1_target, data[i]),
                          QNetwork_grad(data[i].obs, data[i].action)[n][k])])

\* C5 (amended): the bootstrap term is the live Critic on TargetActor's
\* action; only that action is a constant.  The per-sample gradient of the
\* residual is (1 - done) * gamma * grad Critic(s', a') - grad Critic(s, a),
\* and g is the mean of 2 * error_i times the negated per-sample gradient,
\* the error's bootstrap value taken from the live Critic.
C5_BootstrapLive ==
    /\ pc = "mstep" =>
          \A i \in DOMAIN data :
              LET a2 == Actor_forward(target_actor, data[i].next_obs)
              IN  /\ gs.weight[i] =
                        << Discounted(data[i], data[i].next_obs) - data[i].obs,
                           Discounted(data[i], a2) - data[i].action >>
                  /\ gs.bias[i] = << Discounted(data[i], One) - One >>
    /\ pc = "ema" =>
          \A n \in ParamNames : \A k \in DOMAIN qf1[n] :
              qf1_grad[n][k] =
                  MeanSeq([i \in DOMAIN data |->
                      LET a2 == Actor_forward(target_actor, data[i].next_obs)
                      IN  Mul(2 * BellmanError(qf1, data[i]),
                              QNetwork_grad(data[i].obs, data[i].action)[n][k]
                              - Discounted(data[i],
                                    QNetwork_grad(data[i].next_obs, a2)[n][k]))])

C5_Witness ==
    /\ pc = "mstep"
    /\ qf1 # qf1_target
    /\ target_actor # actor
    /\ \E i \in DOMAIN data :
          /\ ~data[i].done
          /\ data[i].next_obs # 0
          /\ gs.bias[i] # << - One >>

\* tau * live + (1 - tau) * target, written out
Smoothed(live, target) ==
    RoundDiv(args.tau * live + (1000 - args.tau) * target, 1000)

\* C6: the targets start as copies of the live networks and change only in
\* a learning step with global_step % policy_frequency = 0, and there to
\* tau * live + (1 - tau) * old target, live being the live network after
\* that step's optimizer updates.
C6_TargetsOnlySmoothed ==
    /\ (target_actor = actor /\ qf1_target = qf1)
    /\ [][/\ <<target_actor, qf1_target>>' # <<target_actor, qf1_target>> =>
                /\ pc = "policy"
                /\ global_step >= args.learning_starts
                /\ global_step % args.policy_frequency = 0
          /\ (pc = "policy" /\ global_step % args.policy_frequency = 0) =>
                /\ \A k \in DOMAIN actor.weight :
                      target_actor'.weight[k] = Smoothed(actor'.weight[k], target_actor.weight[k])
                /\ \A k \in DOMAIN actor.bias :
                      target_actor'.bias[k] = Smoothed(actor'.bias[k], target_actor.bias[k])
                /\ \A n \in ParamNames : \A k \in DOMAIN qf1[n] :
                      qf1_target'[n][k] = Smoothed(qf1'[n][k], qf1_target[n][k])]_vars

C6_Witness ==
    /\ pc = "log"
    /\ global_step % args.policy_frequency = 0
    /\ target_actor # InitActor
    /\ target_actor # actor
    /\ qf1_target # InitQf1
    /\ qf1_target # qf1

\* C7: the stored transition has the observation the action was chosen
\* from and, when done is signalled, the terminal observation of infos
\* (not the auto-reset observation), otherwise the returned observation;
\* the observation carried into the next step is the returned one.
C7_ReplayInsertion ==
    [][pc = "act" =>
         LET t == rb'.store[rb.pos]
         IN  /\ t.obs = obs
             /\ t.action = actions'[1]
             /\ t.done = env_out'.done
             /\ t.next_obs = (IF env_out'.done
                              THEN env_out'.terminal_observation[1]
                              ELSE env_out'.next_obs)
             /\ obs' = env_out'.next_obs]_vars

C7_Witness ==
    /\ pc = "sample"
    /\ env_out.done
    /\ env_out.terminal_observation[1] # env_out.next_obs
    /\ LastAdded.next_obs = env_out.terminal_observation[1]
    /\ LastAdded.done
    /\ obs = env_out.next_obs

\* C8: every action passed to envs.step lies within the action bounds.
C8_ActionsInBounds ==
    \A i \in DOMAIN actions : action_low <= actions[i] /\ actions[i] <= action_high

C8_Witness ==
    /\ global_step > args.learning_starts
    /\ pc = "sample"
    /\ actions = << action_low >>
    /\ Actor_forward(actor, LastAdded.obs) > action_low

\* C9 (as stated): at a learning step whose global_step is a multiple of
\* 100 every value the emission reads is already bound, and the run goes on.
C9_EmissionReadsBoundValues ==
    /\ (pc = "log" /\ global_step % 100 = 0) => (qf1_loss # <<>> /\ actor_loss # <<>>)
    /\ pc # "crashed"

\* C10 (as stated): M changes only in the momentum section of a learning
\* step (the moving average and M_optimizer.step()); the actor update
\* changes neither M nor the Critic.
C10_MOnlyInMomentumSection ==
    [][/\ pc \notin {"ema", "mstep"} => m_qf1' = m_qf1
       /\ pc = "policy" => qf1' = qf1]_vars

====
